---- MODULE Spec2Model ----
(***************************************************************************)
(* Model of the VFS metadata layer of src/kernel/vfs.c: the filesystem     *)
(* type list, the superblock list, the fixed dentry table with its LFU     *)
(* eviction, the reference-counted vnode list, path lookup and the         *)
(* mount / unmount protocol.                                               *)
(*                                                                         *)
(* Pointers are modelled by stable handles: a dentry pointer is the index  *)
(* of its slot in vfs_dentries (1..VFS_MAX_DENTRIES), a superblock pointer *)
(* is the device id it was allocated for, a vnode pointer is its key       *)
(* <<superblock, vnode number>>, a filesystem type pointer is its name.    *)
(* NULL is 0 for every numeric handle and NoName for strings.              *)
(*                                                                         *)
(* Backend callbacks (ft_get_sb, ft_kill_sb, sb_ops.*, v_iops.lookup,      *)
(* config) and kalloc / list_add are outside vfs.c: their outcome is an    *)
(* input of the action that calls them.                                    *)
(***************************************************************************)
EXTENDS Integers, Sequences, FiniteSets, TLC

\* ---------------------------------------------------------------- bounds
VFS_MAX_DENTRIES == 3      \* slots of the dentry table (100 in the source)
MaxDev == 2                \* device ids 1..MaxDev
MaxCount == 2              \* cap of a dentry's frequency counter
MaxRef == 2                \* cap of a vnode's reference count
MaxDepth == 1              \* components walked by one vfs_lookup
MaxPath == 2               \* components of a path resolved by name
MaxTicks == 4              \* seconds the clock advances in one run
MaxSleep == 3              \* largest argument of time_sleep

NULL == 0
NoName == "none"           \* d_name == NULL / ft == NULL
RootName == "/"
Slots == 1..VFS_MAX_DENTRIES
DevIds == 1..MaxDev
CompNames == {"a", "b"}    \* path components (strtok never yields "/")
FsNames == {"rootfs", "fatfs"}
RegNames == {"rootfs"}     \* the types some driver registers
Paths == {"/", "/a"}       \* the path argument of vfs_mount

\* sb_flags values
VFS_SB_F_UNUSED == "unused"
VFS_SB_F_MOUNTED == "mounted"

\* The content of the backend filesystems: the root directory is vnode 1,
\* "a" names a directory (vnode 2) and "b" a regular file (vnode 3).
RootVno == 1
MaxVno == 3
BackendVno(name) == IF name = "a" THEN 2 ELSE 3
BackendIsDir(vno) == vno \in {1, 2}

VARIABLES
  vfs_fs_types,     \* FsNames -> [live, stale]
  vfs_sbs,          \* DevIds -> superblock record (alloc = in the list)
  vfs_dentries,     \* Slots -> dentry record
  vfs_vnodes,       \* VKeys -> vnode record (in_list = in the list)
  vfs_root_dentry,  \* slot of "/" or NULL
  halted,           \* the kernel faulted on a wild pointer
  op, argi,         \* the last call: function and superblock argument
  ret, err,         \* its result, and the errno it failed with ("" if not)
  info,             \* and what it did (callbacks invoked, dentries walked)
  rtc,              \* the registers of the real-time clock
  tm,               \* the struct tm of the last time.c call
  sleeper           \* the caller of time.c: position and time_sleep locals

vars == <<vfs_fs_types, vfs_sbs, vfs_dentries, vfs_vnodes, vfs_root_dentry,
          halted, op, argi, ret, err, info, rtc, tm, sleeper>>

vfsvars == <<vfs_fs_types, vfs_sbs, vfs_dentries, vfs_vnodes,
             vfs_root_dentry>>
timevars == <<rtc, tm, sleeper>>

VKeys == (DevIds \cup {NULL}) \X (0..MaxVno)

\* ------------------------------------------------------------- dentries

EmptyDentry ==
  [d_name |-> NoName, d_parent |-> NULL, d_vno |-> 0, d_count |-> 0,
   d_sb |-> NULL, d_mnt_sb |-> NULL]

\* vfs_dentry_reset: kfree the name, memset the slot to 0.
vfs_dentry_reset(d, i) == [d EXCEPT ![i] = EmptyDentry]

\* The scan without the mount point test: a mount point competes for
\* eviction like any other occupied slot.
RECURSIVE DentryScanNoMnt(_, _, _, _, _)
DentryScanNoMnt(d, parent, name, i, acc) ==
  IF i > VFS_MAX_DENTRIES THEN acc
  ELSE IF d[i].d_name = NoName
       THEN DentryScanNoMnt(d, parent, name, i + 1,
                            [acc EXCEPT !.lowest_index = i,
                                        !.lowest_count = 0])
  ELSE IF d[i].d_parent = parent /\ d[i].d_name = name
       THEN [acc EXCEPT !.hit = i]
  ELSE IF acc.lowest_index = 0 \/ d[i].d_count < acc.lowest_count
       THEN DentryScanNoMnt(d, parent, name, i + 1,
                            [acc EXCEPT !.lowest_index = i,
                                        !.lowest_count = d[i].d_count])
  ELSE DentryScanNoMnt(d, parent, name, i + 1, acc)

\* The scan keeping the first candidate it meets instead of the least used.
RECURSIVE DentryScanFirst(_, _, _, _, _)
DentryScanFirst(d, parent, name, i, acc) ==
  IF i > VFS_MAX_DENTRIES THEN acc
  ELSE IF d[i].d_name = NoName
       THEN DentryScanFirst(d, parent, name, i + 1,
                            [acc EXCEPT !.lowest_index = i,
                                        !.lowest_count = 0])
  ELSE IF d[i].d_parent = parent /\ d[i].d_name = name
       THEN [acc EXCEPT !.hit = i]
  ELSE IF d[i].d_mnt_sb # NULL
       THEN DentryScanFirst(d, parent, name, i + 1, acc)
  ELSE IF acc.lowest_index = 0
       THEN DentryScanFirst(d, parent, name, i + 1,
                            [acc EXCEPT !.lowest_index = i,
                                        !.lowest_count = d[i].d_count])
  ELSE DentryScanFirst(d, parent, name, i + 1, acc)

\* The scan that compares names only against the first slot.
RECURSIVE DentryScanShort(_, _, _, _, _)
DentryScanShort(d, parent, name, i, acc) ==
  IF i > VFS_MAX_DENTRIES THEN acc
  ELSE IF d[i].d_name = NoName
       THEN DentryScanShort(d, parent, name, i + 1,
                            [acc EXCEPT !.lowest_index = i,
                                        !.lowest_count = 0])
  ELSE IF i = 1 /\ d[i].d_parent = parent /\ d[i].d_name = name
       THEN [acc EXCEPT !.hit = i]
  ELSE IF d[i].d_mnt_sb # NULL
       THEN DentryScanShort(d, parent, name, i + 1, acc)
  ELSE IF acc.lowest_index = 0 \/ d[i].d_count < acc.lowest_count
       THEN DentryScanShort(d, parent, name, i + 1,
                            [acc EXCEPT !.lowest_index = i,
                                        !.lowest_count = d[i].d_count])
  ELSE DentryScanShort(d, parent, name, i + 1, acc)

\* The scan loop of vfs_dentry_get, slot by slot.  acc carries hit (the slot
\* returned from inside the loop, or 0), lowest_index (0 for -1) and
\* lowest_count.
RECURSIVE DentryScan(_, _, _, _, _)
DentryScan(d, parent, name, i, acc) ==
  IF i > VFS_MAX_DENTRIES THEN acc
  ELSE IF d[i].d_name = NoName
       THEN DentryScan(d, parent, name, i + 1,
                       [acc EXCEPT !.lowest_index = i, !.lowest_count = 0])
  ELSE IF d[i].d_parent = parent /\ d[i].d_name = name
       THEN [acc EXCEPT !.hit = i]
  ELSE IF d[i].d_mnt_sb # NULL
       THEN DentryScan(d, parent, name, i + 1, acc)
  ELSE IF acc.lowest_index = 0 \/ d[i].d_count < acc.lowest_count
       THEN DentryScan(d, parent, name, i + 1,
                       [acc EXCEPT !.lowest_index = i,
                                   !.lowest_count = d[i].d_count])
  ELSE DentryScan(d, parent, name, i + 1, acc)

\* The owner taken from the parent's d_sb even when the parent is a mount
\* point.
DentryOwnerNoMnt(d, i) ==
  IF d[i].d_parent = NULL THEN NULL ELSE d[d[i].d_parent].d_sb

\* The superblock a new dentry belongs to, read through its parent pointer
\* in the table as it is after the slot has been overwritten.
DentryOwner(d, i) ==
  IF d[i].d_parent = NULL THEN NULL
  ELSE IF d[d[i].d_parent].d_mnt_sb = NULL THEN d[d[i].d_parent].d_sb
  ELSE d[d[i].d_parent].d_mnt_sb

\* The slot i taken for (parent, name): reset, named, linked to its parent,
\* given its superblock and the count 1.
DentrySet(d, i, parent, name) ==
  [d EXCEPT ![i] = [EmptyDentry EXCEPT
                      !.d_name = name, !.d_parent = parent, !.d_count = 1,
                      !.d_sb = DentryOwner([d EXCEPT ![i] =
                                 [EmptyDentry EXCEPT !.d_parent = parent]],
                                           i)]]

\* vfs_dentry_get after the scan s, with a hit that does not count.
DentryTakeNoCount(d, parent, name, oom, s) ==
  IF s.hit # 0
  THEN [d |-> d, ret |-> s.hit, errno |-> "", created |-> FALSE,
        victim |-> 0, capped |-> d[s.hit].d_count >= MaxCount]
  ELSE IF s.lowest_index = 0
  THEN [d |-> d, ret |-> NULL, errno |-> "E_LIMIT", created |-> FALSE,
        victim |-> 0, capped |-> FALSE]
  ELSE IF oom
  THEN [d |-> vfs_dentry_reset(d, s.lowest_index), ret |-> NULL,
        errno |-> "E_NOMEM", created |-> FALSE,
        victim |-> d[s.lowest_index].d_count, capped |-> FALSE]
  ELSE [d |-> DentrySet(d, s.lowest_index, parent, name),
        ret |-> s.lowest_index, errno |-> "", created |-> TRUE,
        victim |-> d[s.lowest_index].d_count, capped |-> FALSE]

\* vfs_dentry_get after the scan s.
DentryTake(d, parent, name, oom, s) ==
  IF s.hit # 0
  THEN [d |-> [d EXCEPT ![s.hit].d_count = @ + 1], ret |-> s.hit,
        errno |-> "", created |-> FALSE, victim |-> 0,
        capped |-> d[s.hit].d_count >= MaxCount]
  ELSE IF s.lowest_index = 0
  THEN [d |-> d, ret |-> NULL, errno |-> "E_LIMIT", created |-> FALSE,
        victim |-> 0, capped |-> FALSE]
  ELSE IF oom
  THEN [d |-> vfs_dentry_reset(d, s.lowest_index), ret |-> NULL,
        errno |-> "E_NOMEM", created |-> FALSE,
        victim |-> d[s.lowest_index].d_count, capped |-> FALSE]
  ELSE [d |-> DentrySet(d, s.lowest_index, parent, name),
        ret |-> s.lowest_index, errno |-> "", created |-> TRUE,
        victim |-> d[s.lowest_index].d_count, capped |-> FALSE]

\* vfs_dentry_get(parent, name); oom = kalloc of the name copy fails.
\* Result: the table afterwards, the slot returned (0 = NULL), errno, the
\* counter of the slot that was overwritten (victim, 0 for an empty slot)
\* and whether the counter cap of the model was hit.
vfs_dentry_get(d, parent, name, oom) ==
  DentryTake(d, parent, name, oom,
             DentryScan(d, parent, name, 1,
                        [hit |-> 0, lowest_index |-> 0, lowest_count |-> 0]))

\* --------------------------------------------------------------- vnodes

NoVnode ==
  [in_list |-> FALSE, v_count |-> 0, v_dir |-> FALSE, destroyed |-> FALSE]

\* Outcomes of the allocation and backend calls of a cache miss in
\* vfs_vnode_get_or_read: kalloc fails, read_vnode fails, list_add fails,
\* or the vnode is loaded.
VnIns == {"oom", "readfail", "addfail", "ok"}

\* vfs_vnode_dealloc(node): list_find_del by key, then kfree.
vfs_vnode_dealloc(v, k) == [v EXCEPT ![k] = NoVnode]

\* A release that leaves the reference where it is.
vfs_vnode_release_skip(v, k, dfail) ==
  [v |-> v, ret |-> 0, errno |-> "", destroyed |-> 0, fault |-> FALSE]

\* vfs_vnode_release(node); dfail = destroy_vnode returns -1.  The field
\* destroyed records that destroy_vnode has been called for a listed entry.
\* With node->ro.v_sb == NULL the callback is found through NULL (fault).
vfs_vnode_release(v, k, dfail) ==
  LET c == v[k].v_count - 1
  IN IF c < 1
     THEN IF dfail
          THEN [v |-> [v EXCEPT ![k].v_count = c,
                                ![k].destroyed = TRUE],
                ret |-> -1, errno |-> "E_IO", destroyed |-> 1,
                fault |-> (k[1] = NULL)]
          ELSE [v |-> vfs_vnode_dealloc(v, k), ret |-> 0, errno |-> "",
                destroyed |-> 1, fault |-> (k[1] = NULL)]
     ELSE [v |-> [v EXCEPT ![k].v_count = c], ret |-> 0, errno |-> "",
           destroyed |-> 0, fault |-> FALSE]

\* vfs_vnode_get_or_read that leaves the entry in the list when the
\* insertion is reported as failed.
vfs_vnode_get_or_read_leak(v, sb, vno, in, vdir0) ==
  IF v[<<sb, vno>>].in_list
  THEN [v |-> [v EXCEPT ![<<sb, vno>>].v_count = @ + 1], ok |-> TRUE,
        key |-> <<sb, vno>>, fault |-> FALSE,
        capped |-> v[<<sb, vno>>].v_count >= MaxRef, read |-> 0,
        destroyed |-> 0, errno |-> ""]
  ELSE IF in = "oom"
  THEN [v |-> v, ok |-> FALSE, key |-> <<sb, vno>>, fault |-> FALSE,
        capped |-> FALSE, read |-> 0, destroyed |-> 0, errno |-> "E_NOMEM"]
  ELSE IF in = "readfail"
  THEN [v |-> v, ok |-> FALSE, key |-> <<sb, vno>>, fault |-> (sb = NULL),
        capped |-> FALSE, read |-> 1, destroyed |-> 0,
        errno |-> "E_BACKEND"]
  ELSE [v |-> [v EXCEPT ![<<sb, vno>>] =
                 [in_list |-> TRUE, v_count |-> IF in = "ok" THEN 1 ELSE 0,
                  v_dir |-> IF vno = 0 THEN vdir0 ELSE BackendIsDir(vno),
                  destroyed |-> in # "ok"]],
        ok |-> in = "ok", key |-> <<sb, vno>>, fault |-> (sb = NULL),
        capped |-> FALSE, read |-> 1,
        destroyed |-> IF in = "ok" THEN 0 ELSE 1,
        errno |-> IF in = "ok" THEN "" ELSE "E_NOMEM"]

\* vfs_vnode_get_or_read(sb, vno).  A miss with sb == NULL dereferences NULL
\* to find read_vnode (fault).  vdir0 is the type a backend reports for
\* vnode number 0, which is not part of the filesystem content.
vfs_vnode_get_or_read(v, sb, vno, in, vdir0) ==
  LET k == <<sb, vno>>
      r == [v |-> v, ok |-> FALSE, key |-> k, fault |-> (sb = NULL),
            capped |-> FALSE, read |-> 1, destroyed |-> 0, errno |-> ""]
  IN IF v[k].in_list
     THEN [r EXCEPT !.v = [v EXCEPT ![k].v_count = @ + 1], !.ok = TRUE,
                    !.fault = FALSE, !.capped = v[k].v_count >= MaxRef,
                    !.read = 0]
     ELSE IF in = "oom"
     THEN [r EXCEPT !.fault = FALSE, !.read = 0, !.errno = "E_NOMEM"]
     ELSE IF in = "readfail"
     THEN [r EXCEPT !.v = vfs_vnode_dealloc(v, k), !.errno = "E_BACKEND"]
     ELSE IF in = "addfail"
     THEN [r EXCEPT !.v = vfs_vnode_dealloc(v, k), !.destroyed = 1,
                    !.errno = "E_NOMEM"]
     ELSE [r EXCEPT !.v = [v EXCEPT ![k] =
                    [in_list |-> TRUE, v_count |-> 1,
                     v_dir |-> IF vno = 0 THEN vdir0 ELSE BackendIsDir(vno),
                     destroyed |-> FALSE]],
                    !.ok = TRUE]

\* The vnode check of the unmount finding nothing.
vfs_vnode_unmount_sb_none(v, sb) == 0

\* vfs_vnode_unmount_sb(sb): -1 when a listed vnode belongs to sb.
vfs_vnode_unmount_sb(v, sb) ==
  IF \E k \in VKeys : v[k].in_list /\ k[1] = sb THEN -1 ELSE 0

\* --------------------------------------------------------------- lookup

\* Inputs of one vfs_lookup_in_dentry call: oom (the name copy of
\* vfs_dentry_get), vn (the vnode load), vdir0, lkfail (v_iops.lookup returns
\* -1) and dfail (destroy_vnode returns -1), without the combinations in
\* which a later input is never consulted.
LkIns ==
  { in \in [oom : BOOLEAN, vn : VnIns, vdir0 : BOOLEAN, lkfail : BOOLEAN,
            dfail : BOOLEAN] :
      /\ in.oom => (in.vn = "ok" /\ ~in.vdir0 /\ ~in.lkfail /\ ~in.dfail)
      /\ in.vn # "ok" => (~in.vdir0 /\ ~in.lkfail /\ ~in.dfail) }

\* What vfs_lookup_in_dentry returns with: both tables, the dentry returned
\* (obj, 0 = NULL), errno, and what the call did: NULL dereferences
\* (fault), counter caps hit, backend calls made.
LookupRes(d, v, obj, e, fault, capped, lk, rd, ds) ==
  [d |-> d, v |-> v, obj |-> obj, errno |-> e, fault |-> fault,
   capped |-> capped,
   calls |-> [lookup |-> lk, read |-> rd, destroy |-> ds]]

\* The vnode of the directory dd: its own, or the root of what is mounted
\* on it.
LookupDirNode(v, sbs, dd, in) ==
  IF dd.d_mnt_sb = NULL
  THEN vfs_vnode_get_or_read(v, dd.d_sb, dd.d_vno, in.vn, in.vdir0)
  ELSE vfs_vnode_get_or_read(v, dd.d_mnt_sb, sbs[dd.d_mnt_sb].sb_root_vno,
                             in.vn, in.vdir0)

\* vfs_lookup_in_dentry once the directory vnode n is held, keeping the
\* new dentry when the backend lookup fails.
LookupInNodeKeep(g, n, r, name, in) ==
  IF ~n.v[n.key].v_dir
  THEN LookupRes(vfs_dentry_reset(g.d, g.ret), r.v, NULL, "E_NODIR",
                 n.fault \/ r.fault, g.capped \/ n.capped,
                 0, n.read, r.destroyed)
  ELSE IF in.lkfail
  THEN LookupRes(g.d, r.v, NULL, "E_BACKEND",
                 n.fault \/ r.fault, g.capped \/ n.capped,
                 1, n.read, r.destroyed)
  ELSE LookupRes([g.d EXCEPT ![g.ret].d_vno = BackendVno(name)], r.v,
                 g.ret, "", n.fault \/ r.fault, g.capped \/ n.capped,
                 1, n.read, r.destroyed)

\* vfs_lookup_in_dentry once the directory vnode n is held: r is the
\* result of the vfs_vnode_release every branch ends with.
LookupInNode(g, n, r, name, in) ==
  IF ~n.v[n.key].v_dir
  THEN LookupRes(vfs_dentry_reset(g.d, g.ret), r.v, NULL, "E_NODIR",
                 n.fault \/ r.fault, g.capped \/ n.capped,
                 0, n.read, r.destroyed)
  ELSE IF in.lkfail
  THEN LookupRes(vfs_dentry_reset(g.d, g.ret), r.v, NULL, "E_BACKEND",
                 n.fault \/ r.fault, g.capped \/ n.capped,
                 1, n.read, r.destroyed)
  ELSE LookupRes([g.d EXCEPT ![g.ret].d_vno = BackendVno(name)], r.v,
                 g.ret, "", n.fault \/ r.fault, g.capped \/ n.capped,
                 1, n.read, r.destroyed)

\* vfs_lookup_in_dentry after vfs_vnode_get_or_read returned n.
LookupAfterRead(g, n, name, in) ==
  IF ~n.ok
  THEN LookupRes(vfs_dentry_reset(g.d, g.ret), n.v, NULL, "E_CORRUPT",
                 n.fault, g.capped \/ n.capped, 0, n.read, n.destroyed)
  ELSE LookupInNode(g, n, vfs_vnode_release(n.v, n.key, in.dfail), name, in)

\* vfs_lookup_in_dentry after vfs_dentry_get returned g.
LookupAfterGet(g, v, sbs, dir, name, in) ==
  IF g.ret = NULL
  THEN LookupRes(g.d, v, NULL, "E_LIMIT", FALSE, g.capped, 0, 0, 0)
  ELSE IF g.d[g.ret].d_vno # 0
  THEN LookupRes(g.d, v, g.ret, "", FALSE, g.capped, 0, 0, 0)
  ELSE LookupAfterRead(g, LookupDirNode(v, sbs, g.d[dir], in), name, in)

\* vfs_lookup_in_dentry(dir, name).
vfs_lookup_in_dentry(d, v, sbs, dir, name, in) ==
  LookupAfterGet(vfs_dentry_get(d, dir, name, in.oom), v, sbs, dir, name, in)

\* One more component of the walk of vfs_lookup: w is the walk so far
\* (tables, current dentry obj, what happened), r the result of
\* vfs_lookup_in_dentry on the next component.
WalkStep(w, r) ==
  [d |-> r.d, v |-> r.v, obj |-> r.obj,
   errno |-> IF r.obj = NULL THEN r.errno ELSE w.errno,
   fault |-> w.fault \/ r.fault, capped |-> w.capped \/ r.capped,
   calls |-> [lookup |-> w.calls.lookup + r.calls.lookup,
              read |-> w.calls.read + r.calls.read,
              destroy |-> w.calls.destroy + r.calls.destroy],
   trail |-> IF r.obj = NULL THEN w.trail ELSE Append(w.trail, r.obj),
   done |-> r.obj # NULL]

\* The while loop of vfs_lookup.  tmp_path is allocated and never written
\* (the path is not copied into it), so strtok tokenizes uninitialized
\* memory: the components walked are any sequence of at most n names.  The
\* result is the set of walks the loop can end with: done = the loop ran
\* out of components, ~done = a component failed.
RECURSIVE LookupWalk(_, _, _)
LookupWalk(sbs, w, n) ==
  {w} \cup
  IF n = 0 THEN {}
  ELSE LET steps == { WalkStep(w, vfs_lookup_in_dentry(w.d, w.v, sbs, w.obj,
                                                       name, in)) :
                        name \in CompNames, in \in LkIns }
       IN UNION { IF x.obj = NULL \/ x.capped THEN {x}
                  ELSE LookupWalk(sbs, x, n - 1) : x \in steps }

\* What vfs_lookup returns once the loop has consumed every component.
vfs_lookup_ret(w) == NULL

\* vfs_lookup(path): the walks from the root dentry with the value returned.
\* The first outcome is kalloc failing for tmp_path.
vfs_lookup(d, v, sbs, root) ==
  LET w0 == [d |-> d, v |-> v, obj |-> root, errno |-> "",
             fault |-> FALSE, capped |-> FALSE,
             calls |-> [lookup |-> 0, read |-> 0, destroy |-> 0],
             trail |-> <<>>, done |-> TRUE]
  IN { [w0 EXCEPT !.obj = NULL, !.errno = "E_NOMEM", !.done = FALSE] } \cup
     { [w EXCEPT !.obj = IF w.done THEN vfs_lookup_ret(w) ELSE NULL] :
         w \in LookupWalk(sbs, w0, MaxDepth) }

\* The while loop of vfs_lookup when strtok yields the components names,
\* in this order: the walks the loop can end with.
RECURSIVE PathWalk(_, _, _)
PathWalk(sbs, w, names) ==
  IF names = <<>> THEN {w}
  ELSE UNION { IF x.obj = NULL \/ x.capped THEN {x}
               ELSE PathWalk(sbs, x, Tail(names)) :
               x \in { WalkStep(w, vfs_lookup_in_dentry(w.d, w.v, sbs, w.obj,
                                                        Head(names), in)) :
                       in \in LkIns } }

\* The paths resolved by name: at most MaxPath components.
PathNames == UNION { [1..n -> CompNames] : n \in 0..MaxPath }

\* ---------------------------------------------------- filesystem types

NoFsType == [live |-> FALSE, stale |-> FALSE]

\* vfs_fs_type_lookup(name): the entries list_find can return.  A stale
\* entry is a list item whose vfs_fs_type_t was freed; comparing its name
\* reads freed memory and may or may not still match.
vfs_fs_type_lookup(fts, name) ==
  (IF fts[name].stale THEN {"stale"} ELSE {}) \cup
  (IF fts[name].live THEN {"live"} ELSE {"none"})

\* vfs_fs_type_dealloc(ft): list_find_del is handed &ft->ro.ft_name (a
\* char **) where the comparison expects the name, so no item matches and
\* the item stays in the list; ft and its name are freed.
vfs_fs_type_dealloc(fts, name) == [fts EXCEPT ![name].stale = TRUE]

\* ---------------------------------------------------------- superblocks

NoSb == [alloc |-> FALSE, sb_flags |-> VFS_SB_F_UNUSED, sb_fs_type |-> NoName,
         sb_mnt |-> NULL, sb_root_vno |-> 0, kills |-> 0]

VFS_SB_IS_MOUNTED(sb) == sb.sb_flags = VFS_SB_F_MOUNTED

\* vfs_sb_lookup(devid)
vfs_sb_lookup(sbs, devid) == IF sbs[devid].alloc THEN devid ELSE NULL

\* vfs_sb_alloc(devid): the defaults of a new superblock.
vfs_sb_alloc(sbs, devid) == [sbs EXCEPT ![devid] = [NoSb EXCEPT !.alloc = TRUE]]

\* A deallocation that removes the superblock whatever ft_kill_sb returns.
vfs_sb_dealloc_force(sbs, sb, killfail) ==
  [sbs |-> [sbs EXCEPT ![sb] = NoSb],
   ret |-> IF killfail THEN -1 ELSE 0,
   errno |-> IF killfail THEN "E_IO" ELSE "",
   fault |-> sbs[sb].sb_fs_type = NoName,
   killed |-> IF sbs[sb].sb_fs_type = NoName THEN 0 ELSE 1]

\* vfs_sb_dealloc(sb); killfail = ft_kill_sb returns -1.  With
\* sb->ro.sb_fs_type == NULL the callback pointer is read through NULL
\* (fault): killfail then stands for the wild call returning -1.
vfs_sb_dealloc(sbs, sb, killfail) ==
  LET wild == sbs[sb].sb_fs_type = NoName
  IN IF killfail
     THEN [sbs |-> [sbs EXCEPT ![sb].kills = IF wild THEN @ ELSE @ + 1],
           ret |-> -1, errno |-> "E_IO", fault |-> wild,
           killed |-> IF wild THEN 0 ELSE 1]
     ELSE [sbs |-> [sbs EXCEPT ![sb] = NoSb], ret |-> 0, errno |-> "",
           fault |-> wild, killed |-> IF wild THEN 0 ELSE 1]

\* ---------------------------------------------------------------- mount

NoInfo == [done |-> FALSE, last |-> NULL, lookup |-> 0, read |-> 0,
           destroy |-> 0, kills |-> 0, victim |-> 0, fault |-> FALSE,
           step |-> "", path |-> <<>>, trail |-> <<>>]

\* Outcomes of the calls vfs_mount makes after the mount point is known:
\* stage names the first call that fails; killfail = ft_kill_sb returns -1
\* inside vfs_sb_dealloc; setflag = the backend's mount callback marks the
\* superblock mounted (sb_flags is not one of the fields reserved to the
\* VFS, and vfs_mount itself never writes it).
MountIns ==
  { in \in [stage : {"sb_oom", "probe_fail", "mount_fail", "ok"},
            killfail : BOOLEAN, setflag : BOOLEAN] :
      /\ in.killfail => in.stage \in {"probe_fail", "mount_fail"}
      /\ in.setflag => in.stage = "ok" }

\* The state vfs_mount returns with.
MountRes(d, v, sbs, root, r, e, i) ==
  [d |-> d, v |-> v, sbs |-> sbs, root |-> root, ret |-> r, errno |-> e,
   info |-> i]

\* The superblock of devid allocated, probed and linked to its type.
SbLinked(sbs, devid, fs_type) ==
  [vfs_sb_alloc(sbs, devid) EXCEPT ![devid].sb_root_vno = RootVno,
                                   ![devid].sb_fs_type = fs_type]

\* vfs_mount giving up after vfs_sb_dealloc returned x; kills counts the
\* ft_kill_sb calls made before it.
MountFail(d, v, root, m, x, e, j, kills, step) ==
  MountRes(vfs_dentry_reset(d, m), v, x.sbs, root, -1, e,
           [j EXCEPT !.fault = @ \/ x.fault, !.kills = kills + x.killed,
                     !.step = step])

\* vfs_mount from vfs_sb_alloc on, with the type ft found.
MountProbe(d, v, sbs, root, m, devid, fs_type, i, ft, in) ==
  IF in.stage = "sb_oom"
  THEN MountRes(vfs_dentry_reset(d, m), v, sbs, root, -1, "E_NOMEM",
                [i EXCEPT !.step = "sb_alloc"])
  ELSE IF in.stage = "probe_fail"
  THEN MountFail(d, v, root, m,
                 vfs_sb_dealloc(vfs_sb_alloc(sbs, devid), devid,
                                in.killfail),
                 "E_INVFS", [i EXCEPT !.fault = @ \/ (ft = "stale")], 0,
                 "probe")
  ELSE IF in.stage = "mount_fail"
  THEN MountFail(d, v, root, m,
                 vfs_sb_dealloc([SbLinked(sbs, devid, fs_type)
                                   EXCEPT ![devid].kills = 1],
                                devid, in.killfail),
                 "E_IO", [i EXCEPT !.fault = @ \/ (ft = "stale")], 1,
                 "mount")
  ELSE MountRes([d EXCEPT ![m].d_mnt_sb = devid], v,
                [SbLinked(sbs, devid, fs_type) EXCEPT ![devid].sb_flags =
                   IF in.setflag THEN VFS_SB_F_MOUNTED ELSE @],
                IF d[m].d_parent = NULL THEN m ELSE root, 0, "",
                [i EXCEPT !.fault = @ \/ (ft = "stale"), !.step = "ok"])

\* vfs_mount from "Get the filesystem type" on; m is the mount point dentry.
MountTail(d, v, sbs, fts, root, m, devid, fs_type, i) ==
  UNION {
    IF ft = "none"
    THEN { MountRes(vfs_dentry_reset(d, m), v, sbs, root, -1, "E_NOKOBJ",
                    [i EXCEPT !.step = "fs_type"]) }
    ELSE IF vfs_sb_lookup(sbs, devid) # NULL
    THEN { MountRes(vfs_dentry_reset(d, m), v, sbs, root, -1, "E_MOUNTED",
                    [i EXCEPT !.step = "sb_lookup"]) }
    ELSE { MountProbe(d, v, sbs, root, m, devid, fs_type, i, ft, in) :
             in \in MountIns }
    : ft \in vfs_fs_type_lookup(fts, fs_type) }

\* What a walk of vfs_lookup did.
WalkInfo(w, root) ==
  [NoInfo EXCEPT !.done = w.done, !.lookup = w.calls.lookup,
                 !.read = w.calls.read, !.destroy = w.calls.destroy,
                 !.fault = w.fault,
                 !.last = IF Len(w.trail) = 0 THEN root
                          ELSE w.trail[Len(w.trail)],
                 !.step = IF w.done THEN "ok" ELSE "fail"]

\* vfs_mount on "/" of an empty tree after vfs_dentry_get returned g.
MountRoot(g, v, sbs, fts, root, devid, fs_type) ==
  IF g.capped THEN {}
  ELSE IF g.ret = NULL
  THEN { MountRes(g.d, v, sbs, root, -1, "E_NOMEM",
                  [NoInfo EXCEPT !.step = "path"]) }
  ELSE MountTail(g.d, v, sbs, fts, root, g.ret, devid, fs_type, NoInfo)

\* vfs_mount below the root after vfs_vnode_get_or_read returned n for the
\* dentry the walk w ended on.
MountOnNode(w, n, j, sbs, fts, root, devid, fs_type) ==
  IF n.capped THEN {}
  ELSE IF ~n.ok
  THEN { MountRes(w.d, n.v, sbs, root, -1, "E_CORRUPT",
                  [j EXCEPT !.step = "path"]) }
  ELSE IF ~n.v[n.key].v_dir
  THEN { MountRes(w.d, n.v, sbs, root, -1, "E_NODIR",
                  [j EXCEPT !.step = "path"]) }
  ELSE MountTail(w.d, n.v, sbs, fts, root, w.obj, devid, fs_type, j)

\* vfs_mount below the root after vfs_lookup returned the walk w.
MountOnPath(w, i, sbs, fts, root, devid, fs_type) ==
  IF w.capped THEN {}
  ELSE IF w.obj = NULL
  THEN { MountRes(w.d, w.v, sbs, root, -1, "E_NOENT",
                  [i EXCEPT !.step = "path"]) }
  ELSE IF w.d[w.obj].d_mnt_sb # NULL
  THEN { MountRes(w.d, w.v, sbs, root, -1, "E_ACCESS",
                  [i EXCEPT !.step = "path"]) }
  ELSE UNION {
         LET n == vfs_vnode_get_or_read(w.v, w.d[w.obj].d_sb,
                                        w.d[w.obj].d_vno, vn, vd)
         IN MountOnNode(w, n,
                        [i EXCEPT !.read = @ + n.read,
                                  !.destroy = @ + n.destroyed,
                                  !.fault = @ \/ n.fault],
                        sbs, fts, root, devid, fs_type)
         : vn \in VnIns, vd \in BOOLEAN }

\* vfs_mount without the E_NOROOT test: any path is mounted as the root
\* while the tree is empty.
vfs_mount_any_root(d, v, sbs, fts, root, devid, path, fs_type) ==
  IF root = NULL
  THEN UNION { MountRoot(vfs_dentry_get(d, NULL, RootName, oom), v, sbs,
                         fts, root, devid, fs_type) :
               oom \in BOOLEAN }
  ELSE IF path # RootName
  THEN UNION { MountOnPath(w, WalkInfo(w, root), sbs, fts, root, devid,
                           fs_type) :
               w \in vfs_lookup(d, v, sbs, root) }
  ELSE { MountRes(d, v, sbs, root, -1, "E_NOTIMP",
                  [NoInfo EXCEPT !.step = "path"]) }

\* The components of the path argument of vfs_mount: none for "/".
MountPathNames(path) == IF path = RootName THEN <<>> ELSE <<"a">>

\* vfs_mount(devid, path, fs_type): every state it can return with.
vfs_mount(d, v, sbs, fts, root, devid, path, fs_type) ==
  IF root = NULL
  THEN IF path # RootName
       THEN { MountRes(d, v, sbs, root, -1, "E_NOROOT",
                       [NoInfo EXCEPT !.step = "path"]) }
       ELSE UNION { MountRoot(vfs_dentry_get(d, NULL, RootName, oom), v, sbs,
                              fts, root, devid, fs_type) :
                    oom \in BOOLEAN }
  ELSE IF path # RootName
  THEN UNION { MountOnPath(w, WalkInfo(w, root), sbs, fts, root, devid,
                           fs_type) :
               w \in vfs_lookup(d, v, sbs, root) }
  ELSE { MountRes(d, v, sbs, root, -1, "E_NOTIMP",
                  [NoInfo EXCEPT !.step = "path"]) }

\* -------------------------------------------------------------- unmount

\* vfs_dentry_unmount_sb(sb): -1 and no change when an occupied mount point
\* belongs to sb, else every occupied slot of sb is reset.
vfs_dentry_unmount_sb(d, sb) ==
  IF \E i \in Slots : d[i].d_name # NoName /\ d[i].d_mnt_sb # NULL
                       /\ d[i].d_sb = sb
  THEN [d |-> d, ret |-> -1]
  ELSE [d |-> [i \in Slots |->
                 IF d[i].d_name # NoName /\ d[i].d_sb = sb
                 THEN EmptyDentry ELSE d[i]],
        ret |-> 0]

\* vfs_sb_unmount(sb); ufail = the backend's unmount callback returns -1.
\* With sb->ro.sb_mnt == NULL the mount point is written through NULL.
vfs_sb_unmount(d, v, sbs, sb, ufail) ==
  LET r == [d |-> d, sbs |-> sbs, ret |-> -1, errno |-> "",
            info |-> NoInfo]
      u == vfs_dentry_unmount_sb(d, sb)
      mp == sbs[sb].sb_mnt
  IN IF ~VFS_SB_IS_MOUNTED(sbs[sb])
     THEN [r EXCEPT !.errno = "E_NOTMOUNTED", !.info.step = "flag"]
     ELSE IF vfs_vnode_unmount_sb(v, sb) = -1
     THEN [r EXCEPT !.errno = "E_CORRUPT", !.info.step = "vnodes"]
     ELSE IF u.ret = -1
     THEN [r EXCEPT !.errno = "E_BUSY", !.info.step = "dentries"]
     ELSE IF ufail
     THEN [r EXCEPT !.d = u.d, !.errno = "E_IO", !.info.step = "unmount"]
     ELSE [r EXCEPT !.d = IF mp = NULL THEN u.d
                          ELSE [u.d EXCEPT ![mp].d_mnt_sb = NULL],
                    !.sbs = [sbs EXCEPT ![sb].sb_flags = VFS_SB_F_UNUSED,
                                        ![sb].sb_mnt = NULL],
                    !.ret = 0, !.info.fault = (mp = NULL),
                    !.info.step = "ok"]

\* ----------------------------------------------------------------- time.c
\* The real-time clock behind time.c: the six time registers read and
\* written through fdrtc, the century register and status register B.
\* Every register is a byte; registerB holds the mode bits.

BINARY_MODE == 4           \* status register B: registers hold binary values
FORMAT_24HOURS == 2        \* status register B: hours count 0..23
HalfWord == 65536          \* 2^16

\* x & m for a mask m of one bit.
BitSet(x, m) == (x \div m) % 2 = 1

\* A u32 or u64 value is kept as two halves, value = hi * 2^16 + lo with
\* lo < 2^16: a u32 has hi < 2^16, a u64 may have more.
Wide(n) == [hi |-> n \div HalfWord, lo |-> n % HalfWord]
WideU32(hi, lo) ==
  [hi |-> (hi + (lo \div HalfWord)) % HalfWord, lo |-> lo % HalfWord]
WideU64(hi, lo) == [hi |-> hi + (lo \div HalfWord), lo |-> lo % HalfWord]
WideLess(a, b) == a.hi < b.hi \/ (a.hi = b.hi /\ a.lo < b.lo)

\* t->year = buf[5]: a char widened to u32; the build's char is signed, so
\* a byte of 0x80 and above becomes 0xFFFFFF80 and above.
CharToU32(b) == IF b >= 128 THEN [hi |-> 65535, lo |-> 65280 + b]
                ELSE [hi |-> 0, lo |-> b]

\* time_load: the struct tm as read from the registers, before conversion.
time_load(r) ==
  [seconds |-> r.seconds, minutes |-> r.minutes, hours |-> r.hours,
   day |-> r.day, month |-> r.month, year |-> CharToU32(r.year)]

\* (x & 0x0F) + ((x / 16) * 10) stored in a u8 field.
BcdToBinU8(x) == ((x % 16) + ((x \div 16) * 10)) % 256

\* ((h & 0x0F) + (((h & 0x70) / 16) * 10)) | (h & 0x80)
BcdToBinHours(h) ==
  ((h % 16) + (((h % 128) \div 16) * 10)) + (IF h >= 128 THEN 128 ELSE 0)

\* (y & 0x0F) + ((y / 16) * 10) in the u32 field year.
WideDiv16(y) ==
  [hi |-> y.hi \div 16, lo |-> ((y.hi % 16) * 4096) + (y.lo \div 16)]
WideTimes10(y) == WideU32(y.hi * 10, y.lo * 10)
WidePlus(y, n) == WideU32(y.hi, y.lo + n)
BcdToBinU32(y) == WidePlus(WideTimes10(WideDiv16(y)), y.lo % 16)

\* The conversions of time_get after the registers were read.
TimeGetBinary(t, registerB) ==
  IF BitSet(registerB, BINARY_MODE) THEN t
  ELSE [seconds |-> BcdToBinU8(t.seconds),
        minutes |-> BcdToBinU8(t.minutes),
        hours |-> BcdToBinHours(t.hours),
        day |-> BcdToBinU8(t.day),
        month |-> BcdToBinU8(t.month),
        year |-> BcdToBinU32(t.year)]

TimeGetCentury(c, registerB) ==
  IF BitSet(registerB, BINARY_MODE) THEN c ELSE BcdToBinU8(c)

TimeGetHours(h, registerB) ==
  IF ~BitSet(registerB, FORMAT_24HOURS) /\ h >= 128
  THEN ((h % 128) + 12) % 24
  ELSE h

\* The loop of time_get reads the registers until two reads agree; last_year
\* is a u8 and t->year a u32, so (last_year != t->year) stays true while the
\* year read is above 255.
time_get_spins(r) == time_load(r).year # Wide(time_load(r).year.lo % 256)

\* time_get once its loop has ended: the conversions of the last read.
time_get(r) ==
  [TimeGetBinary(time_load(r), r.registerB) EXCEPT
     !.hours = TimeGetHours(@, r.registerB),
     !.year = WidePlus(@, TimeGetCentury(r.century, r.registerB) * 100)]

\* BCD_to_binary: the registers hold BCD.
BCD_to_binary(RegisterB) == ~BitSet(RegisterB, 4)

BIN_TO_BCD(x) == ((x \div 10) * 16) + (x % 10)

\* t->year % 100 and (u8)(t->year / 100) of the u32 field year.
WideMod100(y) == (((y.hi % 100) * 36) + y.lo) % 100
WideDiv100U8(y) == ((y.hi * 655) + (((y.hi * 36) + y.lo) \div 100)) % 256

\* The byte a register keeps of the value written to it.
TimeSetByte(x, RegisterB) ==
  (IF BCD_to_binary(RegisterB) THEN BIN_TO_BCD(x) ELSE x) % 256

\* time_set: the registers after the write of buf and of the century.
time_set(r, t) ==
  [r EXCEPT !.seconds = TimeSetByte(t.seconds, r.registerB),
            !.minutes = TimeSetByte(t.minutes, r.registerB),
            !.hours = TimeSetByte(t.hours, r.registerB),
            !.day = TimeSetByte(t.day, r.registerB),
            !.month = TimeSetByte(t.month, r.registerB),
            !.year = TimeSetByte(WideMod100(t.year), r.registerB),
            !.century = TimeSetByte(WideDiv100U8(t.year), r.registerB)]

\* get_seconds: the sum is computed in 32 bits (year is a u32) and widened
\* to u64 on return; 365*24*60*60 = 481 * 2^16 + 13184.
YearSeconds(y) ==
  WideU32(((y.hi * 13184) + (y.lo * 481)) % HalfWord, y.lo * 13184)
DaySeconds(t) ==
  t.seconds + (t.minutes * 60) + (t.hours * 3600) + (t.day * 86400)
  + (t.month * 2592000)
get_seconds(t) ==
  WideU32(YearSeconds(t.year).hi + (DaySeconds(t) \div HalfWord),
          YearSeconds(t.year).lo + (DaySeconds(t) % HalfWord))

\* seconds_end = seconds_start + s, in 64 bits.
SleepEnd(t, s) == WideU64(get_seconds(t).hi, get_seconds(t).lo + s)

\* The clock chip: the value a register stands for, and the register of a
\* value, in the mode of status register B.
RtcValue(b, registerB) ==
  IF BitSet(registerB, BINARY_MODE) THEN b ELSE ((b \div 16) * 10) + (b % 16)
RtcByte(n, registerB) ==
  IF BitSet(registerB, BINARY_MODE) THEN n ELSE ((n \div 10) * 16) + (n % 10)
RtcHour(b, registerB) ==
  IF BitSet(registerB, FORMAT_24HOURS) THEN RtcValue(b, registerB)
  ELSE (RtcValue(b % 128, registerB) % 12) + (IF b >= 128 THEN 12 ELSE 0)
RtcHourByte(h, registerB) ==
  IF BitSet(registerB, FORMAT_24HOURS) THEN RtcByte(h, registerB)
  ELSE RtcByte(IF h % 12 = 0 THEN 12 ELSE h % 12, registerB)
       + (IF h >= 12 THEN 128 ELSE 0)

RtcCalendar(r) ==
  [seconds |-> RtcValue(r.seconds, r.registerB),
   minutes |-> RtcValue(r.minutes, r.registerB),
   hours |-> RtcHour(r.hours, r.registerB),
   day |-> RtcValue(r.day, r.registerB),
   month |-> RtcValue(r.month, r.registerB),
   year |-> RtcValue(r.year, r.registerB),
   century |-> RtcValue(r.century, r.registerB)]

RtcStore(r, c) ==
  [r EXCEPT !.seconds = RtcByte(c.seconds, r.registerB),
            !.minutes = RtcByte(c.minutes, r.registerB),
            !.hours = RtcHourByte(c.hours, r.registerB),
            !.day = RtcByte(c.day, r.registerB),
            !.month = RtcByte(c.month, r.registerB),
            !.year = RtcByte(c.year, r.registerB),
            !.century = RtcByte(c.century, r.registerB)]

DaysInMonth(month, year) ==
  IF month = 2 THEN (IF year % 4 = 0 THEN 29 ELSE 28)
  ELSE IF month \in {4, 6, 9, 11} THEN 30 ELSE 31

\* One second later on the calendar.
CalendarNext(c) ==
  IF c.seconds < 59 THEN [c EXCEPT !.seconds = @ + 1]
  ELSE IF c.minutes < 59 THEN [c EXCEPT !.seconds = 0, !.minutes = @ + 1]
  ELSE IF c.hours < 23
  THEN [c EXCEPT !.seconds = 0, !.minutes = 0, !.hours = @ + 1]
  ELSE IF c.day < DaysInMonth(c.month, c.year)
  THEN [c EXCEPT !.seconds = 0, !.minutes = 0, !.hours = 0, !.day = @ + 1]
  ELSE IF c.month < 12
  THEN [c EXCEPT !.seconds = 0, !.minutes = 0, !.hours = 0, !.day = 1,
                 !.month = @ + 1]
  ELSE [c EXCEPT !.seconds = 0, !.minutes = 0, !.hours = 0, !.day = 1,
                 !.month = 1, !.year = (@ + 1) % 100,
                 !.century = IF c.year = 99 THEN (@ + 1) % 100 ELSE @]

RtcTick(r) == RtcStore(r, CalendarNext(RtcCalendar(r)))

\* The clock, the struct tm and the sleeper before rtc_init and any call.
RtcOff ==
  [seconds |-> 0, minutes |-> 0, hours |-> 0, day |-> 1, month |-> 1,
   year |-> 0, century |-> 0, registerB |-> FORMAT_24HOURS, ticks |-> 0]
TmZero ==
  [seconds |-> 0, minutes |-> 0, hours |-> 0, day |-> 0, month |-> 0,
   year |-> Wide(0)]
NoSleep == [pc |-> "idle", s |-> 0, seconds_end |-> Wide(0), elapsed |-> 0]

\* -------------------------------------------------------------- actions

Init ==
  /\ vfs_fs_types = [n \in FsNames |-> NoFsType]
  /\ vfs_sbs = [s \in DevIds |-> NoSb]
  /\ vfs_dentries = [i \in Slots |-> EmptyDentry]
  /\ vfs_vnodes = [k \in VKeys |-> NoVnode]
  /\ vfs_root_dentry = NULL
  /\ halted = FALSE
  /\ op = "vfs_init" /\ argi = 0 /\ ret = 0 /\ err = ""
  /\ info = NoInfo
  /\ rtc = RtcOff /\ tm = TmZero /\ sleeper = NoSleep

\* A call that dereferenced a wild pointer either brings the kernel down or
\* goes on with the state the code leaves.
Halt(fault) == halted' \in (IF fault THEN BOOLEAN ELSE {FALSE})

\* vfs_fs_type_register(name, config); cfg = kalloc or list_add fails in
\* vfs_fs_type_alloc before the item is linked ("oom"), kalloc of the name
\* fails after it is linked ("name_oom"), config returns -1 ("fail"), or
\* config succeeds and sets the callbacks ("ok").
FsTypeRegister ==
  \E name \in RegNames, cfg \in {"oom", "name_oom", "fail", "ok"} :
   \E ft \in vfs_fs_type_lookup(vfs_fs_types, name) :
    /\ ~halted
    /\ op' = "vfs_fs_type_register" /\ argi' = 0
    /\ info' = [NoInfo EXCEPT !.step = IF ft # "none" THEN "lookup" ELSE cfg]
    /\ IF ft # "none"
       THEN /\ ret' = -1 /\ err' = "E_EXIST"
            /\ UNCHANGED vfs_fs_types
       ELSE IF cfg = "oom"
       THEN /\ ret' = -1 /\ err' = "E_NOMEM"
            /\ UNCHANGED vfs_fs_types
       ELSE IF cfg = "name_oom"
       THEN /\ ret' = -1 /\ err' = "E_NOMEM"
            /\ vfs_fs_types' = vfs_fs_type_dealloc(vfs_fs_types, name)
       ELSE IF cfg = "fail"
       THEN /\ ret' = -1 /\ err' = "E_IO"
            /\ vfs_fs_types' = vfs_fs_type_dealloc(vfs_fs_types, name)
       ELSE /\ ret' = 0 /\ err' = ""
            /\ vfs_fs_types' = [vfs_fs_types EXCEPT ![name].live = TRUE]
    /\ Halt(FALSE)
    /\ UNCHANGED timevars
    /\ UNCHANGED <<vfs_sbs, vfs_dentries, vfs_vnodes, vfs_root_dentry>>

Mount ==
  /\ ~halted
  /\ \E devid \in DevIds, path \in Paths, fs_type \in FsNames :
    \E r \in vfs_mount(vfs_dentries, vfs_vnodes, vfs_sbs, vfs_fs_types,
                       vfs_root_dentry, devid, path, fs_type) :
      /\ op' = "vfs_mount" /\ argi' = devid
      /\ vfs_dentries' = r.d /\ vfs_vnodes' = r.v /\ vfs_sbs' = r.sbs
      /\ vfs_root_dentry' = r.root
      /\ ret' = r.ret /\ err' = r.errno
      /\ info' = [r.info EXCEPT !.path = MountPathNames(path)]
      /\ Halt(r.info.fault)
      /\ UNCHANGED timevars
      /\ UNCHANGED vfs_fs_types

Unmount ==
  \E sb \in DevIds, ufail \in BOOLEAN :
    /\ ~halted
    /\ vfs_sbs[sb].alloc
    /\ LET r == vfs_sb_unmount(vfs_dentries, vfs_vnodes, vfs_sbs, sb, ufail)
       IN /\ op' = "vfs_sb_unmount" /\ argi' = sb
          /\ vfs_dentries' = r.d /\ vfs_sbs' = r.sbs
          /\ ret' = r.ret /\ err' = r.errno
          /\ info' = r.info
          /\ Halt(r.info.fault)
          /\ UNCHANGED timevars
    /\ UNCHANGED <<vfs_fs_types, vfs_vnodes, vfs_root_dentry>>

\* vfs_lookup(path) on a mounted tree.
Lookup ==
  /\ ~halted
  /\ vfs_root_dentry # NULL
  /\ \E w \in vfs_lookup(vfs_dentries, vfs_vnodes, vfs_sbs, vfs_root_dentry) :
    /\ ~w.capped
    /\ op' = "vfs_lookup" /\ argi' = 0
    /\ vfs_dentries' = w.d /\ vfs_vnodes' = w.v
    /\ ret' = w.obj /\ err' = (IF w.done THEN "" ELSE w.errno)
    /\ info' = WalkInfo(w, vfs_root_dentry)
    /\ Halt(w.fault)
    /\ UNCHANGED timevars
    /\ UNCHANGED <<vfs_fs_types, vfs_sbs, vfs_root_dentry>>

\* vfs_dentry_get(parent, name) under a cached dentry.
DentryGet ==
  \E parent \in Slots, name \in CompNames, oom \in BOOLEAN :
    /\ ~halted
    /\ vfs_dentries[parent].d_name # NoName
    /\ LET g == vfs_dentry_get(vfs_dentries, parent, name, oom)
       IN /\ ~g.capped
          /\ op' = "vfs_dentry_get" /\ argi' = parent
          /\ vfs_dentries' = g.d
          /\ ret' = g.ret /\ err' = g.errno
          /\ info' = [NoInfo EXCEPT !.last = g.ret, !.victim = g.victim,
                                    !.path = <<name>>,
                                    !.step = IF g.created THEN "created"
                                             ELSE IF g.ret # NULL THEN "hit"
                                             ELSE "fail"]
          /\ Halt(FALSE)
          /\ UNCHANGED timevars
    /\ UNCHANGED <<vfs_fs_types, vfs_sbs, vfs_vnodes, vfs_root_dentry>>

\* vfs_lookup_in_dentry(dir, name) in a cached dentry.
LookupInDentry ==
  \E dir \in Slots, name \in CompNames, in \in LkIns :
    /\ ~halted
    /\ vfs_dentries[dir].d_name # NoName
    /\ LET r == vfs_lookup_in_dentry(vfs_dentries, vfs_vnodes, vfs_sbs, dir,
                                     name, in)
       IN /\ ~r.capped
          /\ op' = "vfs_lookup_in_dentry" /\ argi' = dir
          /\ vfs_dentries' = r.d /\ vfs_vnodes' = r.v
          /\ ret' = r.obj /\ err' = r.errno
          /\ info' = [NoInfo EXCEPT !.lookup = r.calls.lookup,
                                    !.read = r.calls.read,
                                    !.destroy = r.calls.destroy,
                                    !.fault = r.fault, !.last = r.obj,
                                    !.path = <<name>>,
                                    !.step = IF r.obj = NULL THEN "fail"
                                             ELSE "ok"]
          /\ Halt(r.fault)
          /\ UNCHANGED timevars
    /\ UNCHANGED <<vfs_fs_types, vfs_sbs, vfs_root_dentry>>

\* vfs_vnode_get_or_read(sb, vno) by a holder of a dentry of a mounted
\* superblock (the open file layer).
VnodeGetOrRead ==
  \E sb \in DevIds, vno \in 1..MaxVno, in \in VnIns :
    /\ ~halted
    /\ \E i \in Slots : vfs_dentries[i].d_mnt_sb = sb
    /\ LET n == vfs_vnode_get_or_read(vfs_vnodes, sb, vno, in, FALSE)
       IN /\ ~n.capped
          /\ op' = "vfs_vnode_get_or_read" /\ argi' = sb
          /\ vfs_vnodes' = n.v
          /\ ret' = (IF n.ok THEN vno ELSE NULL)
          /\ err' = n.errno
          /\ info' = [NoInfo EXCEPT !.read = n.read,
                                    !.destroy = n.destroyed, !.last = vno,
                                    !.step = IF n.read = 0 /\ n.ok THEN "hit"
                                             ELSE in]
          /\ Halt(n.fault)
          /\ UNCHANGED timevars
    /\ UNCHANGED <<vfs_fs_types, vfs_sbs, vfs_dentries, vfs_root_dentry>>

\* vfs_vnode_release(node) by a holder of a reference.
VnodeRelease ==
  \E k \in VKeys, dfail \in BOOLEAN :
    /\ ~halted
    /\ vfs_vnodes[k].in_list /\ vfs_vnodes[k].v_count >= 1
    /\ LET r == vfs_vnode_release(vfs_vnodes, k, dfail)
       IN /\ op' = "vfs_vnode_release" /\ argi' = k[1]
          /\ vfs_vnodes' = r.v
          /\ ret' = r.ret /\ err' = r.errno
          /\ info' = [NoInfo EXCEPT !.destroy = r.destroyed, !.last = k[2]]
          /\ Halt(r.fault)
          /\ UNCHANGED timevars
    /\ UNCHANGED <<vfs_fs_types, vfs_sbs, vfs_dentries, vfs_root_dentry>>

\* The kernel's calls into the VFS: drivers register their types, devices
\* are mounted and unmounted, paths are looked up.
Next ==
  \/ FsTypeRegister
  \/ Mount
  \/ Unmount
  \/ Lookup

Spec == Init /\ [][Next]_vars

\* kmain2 after vfs_init: rootfs_init registers its type and
\* vfs_mount(ROOTFS_DEVID, "/", ROOTFS_NAME) returns 0.
ROOTFS_DEVID == 1
ROOTFS_NAME == "rootfs"
Boot ==
  /\ op = "vfs_init"
  /\ \E r \in vfs_mount(vfs_dentries, vfs_vnodes, vfs_sbs,
                         [vfs_fs_types EXCEPT ![ROOTFS_NAME].live = TRUE],
                         vfs_root_dentry, ROOTFS_DEVID, RootName,
                         ROOTFS_NAME) :
       /\ r.ret = 0
       /\ vfs_fs_types' = [vfs_fs_types EXCEPT ![ROOTFS_NAME].live = TRUE]
       /\ vfs_sbs' = r.sbs /\ vfs_dentries' = r.d /\ vfs_vnodes' = r.v
       /\ vfs_root_dentry' = r.root
       /\ op' = "vfs_mount" /\ argi' = ROOTFS_DEVID
       /\ ret' = 0 /\ err' = "" /\ info' = r.info
       /\ Halt(FALSE)
       /\ UNCHANGED timevars

\* The vnode cache under the open file layer's acquires and releases.
NextVnode ==
  \/ Boot
  \/ VnodeGetOrRead
  \/ VnodeRelease

SpecVnode == Init /\ [][NextVnode]_vars

\* The dentry cache of the booted kernel under vfs_dentry_get calls, path
\* lookups, mounts and unmounts.
NextDentry ==
  \/ Boot
  \/ DentryGet
  \/ Lookup
  \/ Mount
  \/ Unmount

SpecDentry == Init /\ [][NextDentry]_vars

\* vfs_lookup on a mounted tree, with the components it walks on record.
Resolve ==
  /\ ~halted
  /\ vfs_root_dentry # NULL
  /\ \E names \in PathNames :
      \E w \in PathWalk(vfs_sbs,
                        [d |-> vfs_dentries, v |-> vfs_vnodes,
                         obj |-> vfs_root_dentry, errno |-> "",
                         fault |-> FALSE, capped |-> FALSE,
                         calls |-> [lookup |-> 0, read |-> 0, destroy |-> 0],
                         trail |-> <<>>, done |-> TRUE],
                        names) :
        /\ ~w.capped
        /\ op' = "vfs_lookup" /\ argi' = 0
        /\ vfs_dentries' = w.d /\ vfs_vnodes' = w.v
        /\ ret' = (IF w.done THEN vfs_lookup_ret(w) ELSE NULL)
        /\ err' = (IF w.done THEN "" ELSE w.errno)
        /\ info' = [WalkInfo(w, vfs_root_dentry) EXCEPT !.path = names,
                                                        !.trail = w.trail]
        /\ Halt(w.fault)
        /\ UNCHANGED timevars
        /\ UNCHANGED <<vfs_fs_types, vfs_sbs, vfs_root_dentry>>

\* Path resolution in the booted kernel.
NextPath ==
  \/ Boot
  \/ Resolve

SpecPath == Init /\ [][NextPath]_vars

\* vfs_dentry_get as a function of the table: the tables it is applied to
\* are drawn slot by slot, each slot empty or holding a dentry that may be a
\* mount point.
DentryInputs ==
  {EmptyDentry} \cup
  { [EmptyDentry EXCEPT !.d_name = n, !.d_parent = p, !.d_count = c,
                        !.d_mnt_sb = m] :
      n \in {RootName, "a"}, p \in {NULL, 1}, c \in 1..MaxCount,
      m \in {NULL} \cup {ROOTFS_DEVID} }

InitDentryGet ==
  /\ vfs_fs_types = [n \in FsNames |-> NoFsType]
  /\ vfs_sbs = [s \in DevIds |-> NoSb]
  /\ vfs_dentries \in [Slots -> DentryInputs]
  /\ vfs_vnodes = [k \in VKeys |-> NoVnode]
  /\ vfs_root_dentry = NULL
  /\ halted = FALSE
  /\ op = "vfs_init" /\ argi = 0 /\ ret = 0 /\ err = ""
  /\ info = NoInfo
  /\ rtc = RtcOff /\ tm = TmZero /\ sleeper = NoSleep

NextDentryGet == DentryGet

SpecDentryGet == InitDentryGet /\ [][NextDentryGet]_vars

\* vfs_sb_dealloc as a function of the superblock list: the lists it is
\* applied to are drawn superblock by superblock, each absent, fresh from
\* vfs_sb_alloc, or probed and linked to a type.
SbInputs ==
  {NoSb} \cup
  { [NoSb EXCEPT !.alloc = TRUE, !.sb_fs_type = t, !.sb_flags = f,
                 !.sb_root_vno = r] :
      t \in FsNames \cup {NoName},
      f \in {VFS_SB_F_UNUSED, VFS_SB_F_MOUNTED}, r \in {0, RootVno} }

InitSbDealloc ==
  /\ vfs_fs_types = [n \in FsNames |-> [NoFsType EXCEPT !.live = TRUE]]
  /\ vfs_sbs \in [DevIds -> SbInputs]
  /\ vfs_dentries = [i \in Slots |-> EmptyDentry]
  /\ vfs_vnodes = [k \in VKeys |-> NoVnode]
  /\ vfs_root_dentry = NULL
  /\ halted = FALSE
  /\ op = "vfs_init" /\ argi = 0 /\ ret = 0 /\ err = ""
  /\ info = NoInfo
  /\ rtc = RtcOff /\ tm = TmZero /\ sleeper = NoSleep

\* vfs_sb_dealloc(sb) on a listed superblock.
SbDealloc ==
  \E sb \in DevIds, killfail \in BOOLEAN :
    /\ ~halted
    /\ vfs_sbs[sb].alloc
    /\ vfs_sbs[sb].kills < MaxCount
    /\ op' = "vfs_sb_dealloc" /\ argi' = sb
    /\ vfs_sbs' = vfs_sb_dealloc(vfs_sbs, sb, killfail).sbs
    /\ ret' = vfs_sb_dealloc(vfs_sbs, sb, killfail).ret
    /\ err' = vfs_sb_dealloc(vfs_sbs, sb, killfail).errno
    /\ info' = [NoInfo EXCEPT
                  !.kills = vfs_sb_dealloc(vfs_sbs, sb, killfail).killed,
                  !.fault = vfs_sb_dealloc(vfs_sbs, sb, killfail).fault,
                  !.step = IF killfail THEN "kill_fail" ELSE "ok"]
    /\ Halt(vfs_sb_dealloc(vfs_sbs, sb, killfail).fault)
    /\ UNCHANGED timevars
    /\ UNCHANGED <<vfs_fs_types, vfs_dentries, vfs_vnodes, vfs_root_dentry>>

NextSbDealloc == SbDealloc

SpecSbDealloc == InitSbDealloc /\ [][NextSbDealloc]_vars

\* ------------------------------------------------- time.c: actions, specs

\* The clock when the kernel calls rtc_init: a date and time a few seconds
\* before the end of a minute, a day, a month of 31, 30 and 28 days, a
\* year and a century, the date kmain2 sets, and a date whose second count
\* is 2^32 - 3.
StartDates ==
  { [seconds |-> 57, minutes |-> 30, hours |-> 10, day |-> 15, month |-> 6,
     year |-> 16, century |-> 20],
    [seconds |-> 57, minutes |-> 59, hours |-> 23, day |-> 15, month |-> 6,
     year |-> 16, century |-> 20],
    [seconds |-> 57, minutes |-> 59, hours |-> 23, day |-> 31, month |-> 1,
     year |-> 16, century |-> 20],
    [seconds |-> 57, minutes |-> 59, hours |-> 23, day |-> 30, month |-> 4,
     year |-> 16, century |-> 20],
    [seconds |-> 57, minutes |-> 59, hours |-> 23, day |-> 28, month |-> 2,
     year |-> 15, century |-> 20],
    [seconds |-> 57, minutes |-> 59, hours |-> 23, day |-> 31, month |-> 12,
     year |-> 16, century |-> 20],
    [seconds |-> 59, minutes |-> 59, hours |-> 18, day |-> 31, month |-> 12,
     year |-> 0, century |-> 21],
    [seconds |-> 57, minutes |-> 3, hours |-> 1, day |-> 24, month |-> 10,
     year |-> 42, century |-> 20],
    [seconds |-> 57, minutes |-> 59, hours |-> 23, day |-> 31, month |-> 12,
     year |-> 99, century |-> 19] }

RegisterBs == {0, FORMAT_24HOURS, BINARY_MODE, BINARY_MODE + FORMAT_24HOURS}

\* The struct tm arguments of time_set: valid dates and times (the first
\* and the last second of a year, noon in June, and the time kmain2 sets)
\* with the two-digit years of TmYears and the centuries of TmCenturies.
TmTimes ==
  { [seconds |-> 0, minutes |-> 0, hours |-> 0, day |-> 1, month |-> 1],
    [seconds |-> 59, minutes |-> 59, hours |-> 23, day |-> 31, month |-> 12],
    [seconds |-> 30, minutes |-> 15, hours |-> 12, day |-> 15, month |-> 6],
    [seconds |-> 59, minutes |-> 59, hours |-> 18, day |-> 31, month |-> 12] }
TmYears == {0, 16, 79, 80, 99}
TmCenturies == {19, 20, 21, 99}
TmInputs ==
  { [seconds |-> t.seconds, minutes |-> t.minutes, hours |-> t.hours,
     day |-> t.day, month |-> t.month, year |-> Wide((c * 100) + y)] :
      t \in TmTimes, c \in TmCenturies, y \in TmYears }

InitTime ==
  /\ vfs_fs_types = [n \in FsNames |-> NoFsType]
  /\ vfs_sbs = [s \in DevIds |-> NoSb]
  /\ vfs_dentries = [i \in Slots |-> EmptyDentry]
  /\ vfs_vnodes = [k \in VKeys |-> NoVnode]
  /\ vfs_root_dentry = NULL
  /\ halted = FALSE
  /\ op = "rtc_init" /\ argi = 0 /\ ret = 0 /\ err = ""
  /\ info = NoInfo
  /\ rtc \in { RtcStore([RtcOff EXCEPT !.registerB = b], c) :
                 c \in StartDates, b \in RegisterBs }
  /\ tm = TmZero
  /\ sleeper = NoSleep

\* The clock chip advances the registers by one second.
Tick ==
  /\ ~halted
  /\ rtc.ticks < MaxTicks
  /\ rtc' = [RtcTick(rtc) EXCEPT !.ticks = @ + 1]
  /\ sleeper' = [sleeper EXCEPT
                   !.elapsed = IF sleeper.pc = "loop" THEN @ + 1 ELSE @]
  /\ op' = "tick" /\ argi' = 0 /\ ret' = 0 /\ err' = "" /\ info' = NoInfo
  /\ UNCHANGED <<tm, halted>>
  /\ UNCHANGED vfsvars

\* time_set(t)
TimeSet ==
  \E t \in TmInputs :
    /\ ~halted
    /\ sleeper.pc \in {"idle", "done"}
    /\ rtc' = time_set(rtc, t)
    /\ tm' = t
    /\ op' = "time_set" /\ argi' = 0 /\ ret' = 0 /\ err' = ""
    /\ info' = NoInfo
    /\ UNCHANGED <<sleeper, halted>>
    /\ UNCHANGED vfsvars

\* time_get(t): the call returns, or it stays in its loop.
TimeGet ==
  /\ ~halted
  /\ sleeper.pc \in {"idle", "done"}
  /\ tm' = (IF time_get_spins(rtc) THEN time_load(rtc) ELSE time_get(rtc))
  /\ sleeper' = [sleeper EXCEPT
                   !.pc = IF time_get_spins(rtc) THEN "time_get" ELSE @]
  /\ op' = "time_get" /\ argi' = 0 /\ ret' = 0 /\ err' = ""
  /\ info' = NoInfo
  /\ UNCHANGED <<rtc, halted>>
  /\ UNCHANGED vfsvars

\* One more turn of the loop of a time_get that has not returned.
TimeGetSpin ==
  /\ ~halted
  /\ sleeper.pc = "time_get"
  /\ tm' = (IF time_get_spins(rtc) THEN time_load(rtc) ELSE time_get(rtc))
  /\ sleeper' = [sleeper EXCEPT
                   !.pc = IF time_get_spins(rtc) THEN @ ELSE "idle"]
  /\ op' = "time_get" /\ argi' = 0 /\ ret' = 0 /\ err' = ""
  /\ info' = NoInfo
  /\ UNCHANGED <<rtc, halted>>
  /\ UNCHANGED vfsvars

\* time_sleep(s) up to its loop: the start time is read and seconds_end
\* computed, or the call stays in the loop of its first time_get.
TimeSleep ==
  \E s \in 0..MaxSleep :
    /\ ~halted
    /\ sleeper.pc \in {"idle", "done"}
    /\ tm' = (IF time_get_spins(rtc) THEN time_load(rtc) ELSE time_get(rtc))
    /\ sleeper' = [pc |-> IF time_get_spins(rtc) THEN "start" ELSE "loop",
                   s |-> s,
                   seconds_end |-> IF time_get_spins(rtc) THEN Wide(0)
                                   ELSE SleepEnd(time_get(rtc), s),
                   elapsed |-> 0]
    /\ op' = "time_sleep" /\ argi' = s /\ ret' = 0 /\ err' = ""
    /\ info' = NoInfo
    /\ UNCHANGED <<rtc, halted>>
    /\ UNCHANGED vfsvars

\* One more turn of the loop of the first time_get of time_sleep; when it
\* returns the start time is read and seconds_end computed.
SleepStart ==
  /\ ~halted
  /\ sleeper.pc = "start"
  /\ tm' = (IF time_get_spins(rtc) THEN time_load(rtc) ELSE time_get(rtc))
  /\ sleeper' = [sleeper EXCEPT
                   !.pc = IF time_get_spins(rtc) THEN @ ELSE "loop",
                   !.seconds_end = IF time_get_spins(rtc) THEN @
                                   ELSE SleepEnd(time_get(rtc), sleeper.s)]
  /\ op' = "time_sleep" /\ argi' = sleeper.s /\ ret' = 0 /\ err' = ""
  /\ info' = NoInfo
  /\ UNCHANGED <<rtc, halted>>
  /\ UNCHANGED vfsvars

\* One turn of the loop of time_sleep: the time is read again and the call
\* returns unless get_seconds(&t) < seconds_end.
SleepPoll ==
  /\ ~halted
  /\ sleeper.pc = "loop"
  /\ ~time_get_spins(rtc)
  /\ tm' = time_get(rtc)
  /\ sleeper' = [sleeper EXCEPT
                   !.pc = IF WideLess(get_seconds(time_get(rtc)),
                                      sleeper.seconds_end)
                          THEN "loop" ELSE "done"]
  /\ op' = "time_sleep" /\ argi' = sleeper.s /\ ret' = 0 /\ err' = ""
  /\ info' = NoInfo
  /\ UNCHANGED <<rtc, halted>>
  /\ UNCHANGED vfsvars

\* kmain2's clock test: the time is set and read back while the clock runs.
NextTime ==
  \/ TimeSet
  \/ TimeGet
  \/ TimeGetSpin
  \/ Tick

SpecTime == InitTime /\ [][NextTime]_vars

\* A process in time_sleep while the clock runs.
NextSleep ==
  \/ TimeSleep
  \/ SleepStart
  \/ SleepPoll
  \/ Tick

SpecSleep == InitTime /\ [][NextSleep]_vars

\* --------------------------------------------------------------- claims

\* C1: a vfs_mount that returns failure (and did not go through a wild
\* pointer) leaves the superblock list, the dentry table, the filesystem
\* type list and the root dentry pointer exactly as they were.
C1_MountFailureIsAtomic ==
  [][(op' = "vfs_mount" /\ ret' = -1 /\ ~info'.fault)
       => /\ vfs_sbs' = vfs_sbs
          /\ vfs_dentries' = vfs_dentries
          /\ vfs_fs_types' = vfs_fs_types
          /\ vfs_root_dentry' = vfs_root_dentry]_vars

\* C2: no step of the dentry cache (vfs_dentry_get, a path lookup, a mount,
\* an unmount) changes the name, parent or vnode number of a slot that is a
\* mount point, and only an unmount may end its being one.
C2_MountPointNeverEvicted ==
  [][\A i \in Slots :
       vfs_dentries[i].d_mnt_sb # NULL
         => /\ vfs_dentries'[i].d_name = vfs_dentries[i].d_name
            /\ vfs_dentries'[i].d_parent = vfs_dentries[i].d_parent
            /\ vfs_dentries'[i].d_vno = vfs_dentries[i].d_vno
            /\ (op' # "vfs_sb_unmount"
                  => vfs_dentries'[i].d_mnt_sb = vfs_dentries[i].d_mnt_sb)]_vars

\* vfs_dentry_get has just evicted an entry used twice although a mount
\* point with a lower counter was in the table.
C2_Witness ==
  /\ op = "vfs_dentry_get" /\ info.step = "created" /\ info.victim = 2
  /\ \E i \in Slots : /\ vfs_dentries[i].d_mnt_sb # NULL
                       /\ vfs_dentries[i].d_count = 1

\* C3: when vfs_dentry_get creates an entry, the slot it takes was empty if
\* any slot was empty; otherwise it was not a mount point and no occupied
\* slot that is not a mount point had a smaller counter.
C3_EvictsEmptyElseLeastUsed ==
  [][(op' = "vfs_dentry_get" /\ info'.step = "created")
       => IF \E k \in Slots : vfs_dentries[k].d_name = NoName
          THEN vfs_dentries[ret'].d_name = NoName
          ELSE /\ vfs_dentries[ret'].d_mnt_sb = NULL
               /\ \A k \in Slots :
                    vfs_dentries[k].d_mnt_sb = NULL
                      => vfs_dentries[ret'].d_count
                           <= vfs_dentries[k].d_count]_vars

\* vfs_dentry_get has just evicted an entry used once and spared one used
\* twice.
C3_Witness ==
  /\ op = "vfs_dentry_get" /\ info.step = "created" /\ info.victim = 1
  /\ \E k \in Slots : /\ k # ret
                       /\ vfs_dentries[k].d_name # NoName
                       /\ vfs_dentries[k].d_mnt_sb = NULL
                       /\ vfs_dentries[k].d_count = 2

\* C4: a vnode is in the vnode list if and only if its reference count is
\* at least 1.
C4_ListedIffReferenced ==
  \A k \in VKeys : vfs_vnodes[k].in_list <=> vfs_vnodes[k].v_count >= 1

\* C5: destroy_vnode is invoked by vfs_vnode_release only when the count
\* reaches 0, never a second time for an entry still in the list, and an
\* entry leaves the list only in a step that invokes it.
C5_DestroyedExactlyOnce ==
  [][op' = "vfs_vnode_release"
       => LET k == <<argi', info'.last>>
          IN /\ info'.destroy = 1 => vfs_vnodes[k].v_count = 1
             /\ info'.destroy = 1 => ~vfs_vnodes[k].destroyed
             /\ (vfs_vnodes[k].in_list /\ ~vfs_vnodes'[k].in_list)
                  => info'.destroy = 1]_vars

\* C6: vfs_sb_unmount of a superblock flagged mounted, while the vnode list
\* holds a vnode of it or an occupied mount point dentry belongs to it,
\* returns -1 with E_CORRUPT or E_BUSY before the backend's unmount callback
\* is reached, and changes no dentry, superblock or vnode.
C6_UnmountRefusedWhileInUse ==
  [][(/\ op' = "vfs_sb_unmount"
      /\ VFS_SB_IS_MOUNTED(vfs_sbs[argi'])
      /\ \/ \E k \in VKeys : vfs_vnodes[k].in_list /\ k[1] = argi'
         \/ \E i \in Slots : /\ vfs_dentries[i].d_name # NoName
                              /\ vfs_dentries[i].d_mnt_sb # NULL
                              /\ vfs_dentries[i].d_sb = argi')
       => /\ ret' = -1
          /\ err' \in {"E_CORRUPT", "E_BUSY"}
          /\ info'.step \in {"vnodes", "dentries"}
          /\ vfs_dentries' = vfs_dentries
          /\ vfs_sbs' = vfs_sbs
          /\ vfs_vnodes' = vfs_vnodes]_vars

\* An unmount of a superblock flagged mounted has just been refused because
\* one of its vnodes is in the list, with dentries of it in the table.
C6_Witness ==
  /\ op = "vfs_sb_unmount" /\ ret = -1 /\ err = "E_CORRUPT"
  /\ VFS_SB_IS_MOUNTED(vfs_sbs[argi])
  /\ \E k \in VKeys : vfs_vnodes[k].in_list /\ k[1] = argi
  /\ \E i \in Slots : vfs_dentries[i].d_sb = argi

\* C7: vfs_sb_unmount of a superblock flagged mounted, with none of its
\* vnodes in the list, no mount point among its dentries and the backend's
\* unmount callback succeeding, returns 0 and leaves no occupied dentry of
\* the superblock, the dentry it was mounted on occupied with d_mnt_sb
\* cleared, the flag unused and sb_mnt null.
C7_UnmountSucceedsAndUnlinks ==
  [][(/\ op' = "vfs_sb_unmount"
      /\ VFS_SB_IS_MOUNTED(vfs_sbs[argi'])
      /\ ~ \E k \in VKeys : vfs_vnodes[k].in_list /\ k[1] = argi'
      /\ ~ \E i \in Slots : /\ vfs_dentries[i].d_name # NoName
                             /\ vfs_dentries[i].d_mnt_sb # NULL
                             /\ vfs_dentries[i].d_sb = argi'
      /\ err' # "E_IO")
       => /\ ret' = 0
          /\ \A i \in Slots : vfs_dentries'[i].d_name # NoName
                                => vfs_dentries'[i].d_sb # argi'
          /\ \A i \in Slots : vfs_dentries[i].d_mnt_sb = argi'
                                => /\ vfs_dentries'[i].d_name # NoName
                                   /\ vfs_dentries'[i].d_mnt_sb = NULL
          /\ vfs_sbs'[argi'].sb_flags = VFS_SB_F_UNUSED
          /\ vfs_sbs'[argi'].sb_mnt = NULL]_vars

\* C8: a dentry refers to a superblock as mounted on it exactly when that
\* superblock is flagged mounted, points back to the dentry and has a
\* filesystem type; and vfs_sb_unmount of a superblock some dentry refers
\* to does not fail with E_NOTMOUNTED.
C8_MountLinksAgree ==
  /\ [](\A i \in Slots, sb \in DevIds :
          vfs_dentries[i].d_mnt_sb = sb
            <=> /\ vfs_sbs[sb].alloc
                /\ VFS_SB_IS_MOUNTED(vfs_sbs[sb])
                /\ vfs_sbs[sb].sb_mnt = i
                /\ vfs_sbs[sb].sb_fs_type # NoName)
  /\ [][(/\ op' = "vfs_sb_unmount"
          /\ \E i \in Slots : vfs_dentries[i].d_mnt_sb = argi')
           => err' # "E_NOTMOUNTED"]_vars

\* C9: in the mount scenario, a mount on a path below the root fails with
\* E_NOENT only if a component of the path did not resolve, a superblock
\* mounted on a dentry that has something mounted below it is refused
\* with E_BUSY, and one with nothing below it and no vnode in the list is
\* unmounted with success, the reference of its mount point cleared.
C9_MountScenario ==
  [][/\ (op' = "vfs_mount" /\ err' = "E_NOENT") => ~info'.done
     /\ (/\ op' = "vfs_sb_unmount"
         /\ \E i \in Slots : vfs_dentries[i].d_mnt_sb = argi'
         /\ ~ \E k \in VKeys : vfs_vnodes[k].in_list /\ k[1] = argi'
         /\ err' # "E_IO")
          => IF \E i \in Slots : /\ vfs_dentries[i].d_name # NoName
                                 /\ vfs_dentries[i].d_mnt_sb # NULL
                                 /\ vfs_dentries[i].d_sb = argi'
             THEN ret' = -1 /\ err' = "E_BUSY"
             ELSE /\ ret' = 0
                  /\ \A i \in Slots :
                       vfs_dentries'[i].d_mnt_sb # argi']_vars

\* C10: a vfs_lookup whose components all resolved returns the dentry of
\* the last one (the root dentry when there was none), and a vfs_lookup
\* that returns NULL had a component that did not resolve.
C10_LookupReturnsLastDentry ==
  [][op' = "vfs_lookup"
       => /\ info'.done => ret' = info'.last
          /\ ret' = NULL => ~info'.done]_vars

\* C11: a vfs_lookup that follows a completed vfs_lookup of the same
\* components, nothing else in between, completes too, visits dentries
\* with the same vnode numbers, raises the counter of every dentry it
\* visits by 1, and calls neither the backend's lookup nor read_vnode.
C11_RepeatedResolutionHitsCache ==
  [][(/\ op = "vfs_lookup" /\ info.done
      /\ op' = "vfs_lookup" /\ info'.path = info.path)
       => /\ info'.done
          /\ info'.lookup = 0 /\ info'.read = 0
          /\ Len(info'.trail) = Len(info.trail)
          /\ \A n \in 1..Len(info'.trail) :
               /\ vfs_dentries'[info'.trail[n]].d_vno
                    = vfs_dentries[info.trail[n]].d_vno
               /\ vfs_dentries'[info'.trail[n]].d_count
                    = vfs_dentries[info'.trail[n]].d_count + 1]_vars

\* C12: a vfs_sb_unmount that fails with E_IO, the backend's unmount
\* callback having returned -1, leaves the superblock flagged mounted, the
\* dentry it is mounted on referring to it, and every dentry of the
\* superblock in the table.
C12_FailedUnmountKeepsDentries ==
  [][(op' = "vfs_sb_unmount" /\ err' = "E_IO")
       => /\ ret' = -1
          /\ VFS_SB_IS_MOUNTED(vfs_sbs'[argi'])
          /\ \A i \in Slots :
               vfs_dentries[i].d_mnt_sb = argi'
                 => vfs_dentries'[i].d_mnt_sb = argi'
          /\ \A i \in Slots :
               (vfs_dentries[i].d_name # NoName /\ vfs_dentries[i].d_sb = argi')
                 => vfs_dentries'[i] = vfs_dentries[i]]_vars

\* C13: after a vfs_sb_unmount that returned 0 the superblock list holds no
\* superblock of that device, so that vfs_sb_lookup does not make a later
\* vfs_mount of the device fail with E_MOUNTED.
C13_UnmountRemovesSuperblock ==
  [][(op' = "vfs_sb_unmount" /\ ret' = 0)
       => vfs_sb_lookup(vfs_sbs', argi') = NULL]_vars

\* C14: vfs_mount does not fail with E_NOTIMP while nothing is mounted:
\* neither before a root dentry exists, nor right after the vfs_sb_unmount
\* of the only superblock some dentry referred to has returned 0.
C14_RootMountableWhenNothingMounted ==
  [][op' = "vfs_mount"
       => /\ vfs_root_dentry = NULL => err' # "E_NOTIMP"
          /\ (/\ op = "vfs_sb_unmount" /\ ret = 0
              /\ \A i \in Slots : vfs_dentries[i].d_mnt_sb \in {NULL, argi})
               => err' # "E_NOTIMP"]_vars

\* C15: while there is no root dentry, vfs_mount with a path other than "/"
\* returns -1 with E_NOROOT and leaves dentries, superblocks, vnodes, the
\* root pointer and the type registry as they were; E_NOROOT is reported in
\* no other case.
C15_NoRootRejectsOtherPaths ==
  [][op' = "vfs_mount"
       => /\ (vfs_root_dentry = NULL /\ info'.path # <<>>)
               => /\ ret' = -1 /\ err' = "E_NOROOT"
                  /\ UNCHANGED <<vfs_dentries, vfs_sbs, vfs_vnodes,
                                 vfs_root_dentry, vfs_fs_types>>
          /\ err' = "E_NOROOT"
               => vfs_root_dentry = NULL /\ info'.path # <<>>]_vars

C15_Witness ==
  /\ op = "vfs_mount" /\ err = "E_NOROOT" /\ info.path # <<>>
  /\ vfs_root_dentry = NULL
  /\ \A i \in Slots : vfs_dentries[i].d_name = NoName

\* C16: a vfs_mount below the root whose path resolution ends on a dentry
\* that is already a mount point fails with E_ACCESS, and in every state
\* no superblock is the d_mnt_sb of two dentries.
C16_MountPointTakenIsAccessDenied ==
  [][/\ (/\ op' = "vfs_mount" /\ vfs_root_dentry # NULL
          /\ info'.path # <<>> /\ info'.done
          /\ vfs_dentries'[info'.last].d_mnt_sb # NULL)
           => ret' = -1 /\ err' = "E_ACCESS"
      /\ \A i \in Slots : \A j \in Slots \ {i} :
           vfs_dentries'[i].d_mnt_sb # NULL
             => vfs_dentries'[i].d_mnt_sb # vfs_dentries'[j].d_mnt_sb]_vars

\* C17: a vfs_fs_type_register that fails with E_EXIST or E_IO leaves the
\* list of filesystem types as it was before the call; after E_IO a lookup
\* of a name that was not registered before finds nothing.
C17_FailedRegisterKeepsRegistry ==
  [][(/\ op' = "vfs_fs_type_register" /\ ret' = -1
      /\ err' \in {"E_EXIST", "E_IO"})
       => /\ vfs_fs_types' = vfs_fs_types
          /\ err' = "E_IO"
               => \A name \in RegNames :
                    ~vfs_fs_types[name].live
                      => vfs_fs_type_lookup(vfs_fs_types', name) = {"none"}]_vars

\* C18: vfs_dentry_get(parent, name) on a table in which every slot holds a
\* mount point and none holds (parent, name) returns NULL with E_LIMIT and
\* leaves every slot as it was; E_LIMIT is reported for no other table.
C18_FullOfMountPointsIsLimit ==
  [][op' = "vfs_dentry_get"
       => /\ ((\A i \in Slots : (vfs_dentries[i].d_name # NoName
                                  /\ vfs_dentries[i].d_mnt_sb # NULL))
              /\ (\A i \in Slots : ~(vfs_dentries[i].d_parent = argi'
                                     /\ vfs_dentries[i].d_name = info'.path[1])))
               => (ret' = NULL /\ err' = "E_LIMIT"
                   /\ vfs_dentries' = vfs_dentries)
          /\ err' = "E_LIMIT"
               => (\A i \in Slots : (vfs_dentries[i].d_name # NoName
                                     /\ vfs_dentries[i].d_mnt_sb # NULL))]_vars

C18_Witness ==
  /\ op = "vfs_dentry_get" /\ ret = NULL /\ err = "E_LIMIT"
  /\ \A i \in Slots : (vfs_dentries[i].d_name # NoName
                        /\ vfs_dentries[i].d_mnt_sb # NULL)
  /\ \A i \in Slots : ~(vfs_dentries[i].d_parent = argi
                         /\ vfs_dentries[i].d_name = info.path[1])

C20_ParentSlotIsStable ==
  [][\A i \in Slots :
       (vfs_dentries'[i].d_name # NoName /\ vfs_dentries'[i].d_parent # NULL)
         => /\ vfs_dentries'[i].d_parent # i
            /\ vfs_dentries'[vfs_dentries'[i].d_parent].d_name # NoName
            /\ (/\ vfs_dentries[i].d_name = vfs_dentries'[i].d_name
                /\ vfs_dentries[i].d_parent = vfs_dentries'[i].d_parent)
                 => (/\ vfs_dentries'[vfs_dentries'[i].d_parent].d_name
                          = vfs_dentries[vfs_dentries[i].d_parent].d_name
                     /\ vfs_dentries'[vfs_dentries'[i].d_parent].d_parent
                          = vfs_dentries[vfs_dentries[i].d_parent].d_parent)]_vars

\* C21: when some slot holds (parent, name), vfs_dentry_get(parent, name)
\* returns a slot holding that pair, adds exactly 1 to its d_count and
\* changes no other field and no other slot.
C21_HitOnlyCounts ==
  [][(/\ op' = "vfs_dentry_get"
      /\ \E i \in Slots : (vfs_dentries[i].d_name = info'.path[1]
                            /\ vfs_dentries[i].d_parent = argi'))
       => (/\ ret' \in Slots
           /\ vfs_dentries[ret'].d_name = info'.path[1]
           /\ vfs_dentries[ret'].d_parent = argi'
           /\ vfs_dentries' =
                [vfs_dentries EXCEPT ![ret'].d_count = @ + 1])]_vars

C21_Witness ==
  /\ op = "vfs_dentry_get" /\ info.step = "hit" /\ ret \in Slots
  /\ vfs_dentries[ret].d_name = info.path[1]
  /\ vfs_dentries[ret].d_parent = argi
  /\ vfs_dentries[ret].d_count = 2
  /\ vfs_dentries[ret].d_vno # 0

\* C22: no two occupied dentry slots hold the same (d_parent, d_name) pair.
C22_PairIsUnique ==
  \A i \in Slots : \A j \in Slots \ {i} :
    (vfs_dentries[i].d_name # NoName /\ vfs_dentries[j].d_name # NoName)
      => (vfs_dentries[i].d_parent # vfs_dentries[j].d_parent
          \/ vfs_dentries[i].d_name # vfs_dentries[j].d_name)

C22_Witness ==
  /\ op = "vfs_dentry_get" /\ info.step = "hit"
  /\ \E i \in Slots : \E j \in Slots \ {i} :
       /\ vfs_dentries[i].d_name # NoName
       /\ vfs_dentries[i].d_name = vfs_dentries[j].d_name
       /\ vfs_dentries[i].d_parent # vfs_dentries[j].d_parent
       /\ ret = i

C24_LookupKeepsVnodeCounts ==
  [][(/\ op' = "vfs_lookup"
      /\ \A k \in VKeys : ~(vfs_vnodes[k].in_list /\ vfs_vnodes[k].v_count < 1)
      /\ \A k \in VKeys : ~(vfs_vnodes'[k].in_list
                             /\ vfs_vnodes'[k].v_count < 1))
       => vfs_vnodes' = vfs_vnodes]_vars

C24_Witness ==
  /\ op = "vfs_lookup" /\ info.done /\ Len(info.trail) = 2
  /\ info.read >= 2 /\ info.destroy >= 2 /\ info.lookup >= 2
  /\ \A k \in VKeys : ~vfs_vnodes[k].in_list

\* C25: a vfs_mount on a path other than "/" leaves every vnode listed or
\* unlisted as it was and with the same reference count, so that the vnode
\* check of vfs_sb_unmount answers for every superblock as before the call.
C25_MountKeepsVnodeCounts ==
  [][(op' = "vfs_mount" /\ info'.path # <<>>)
       => (/\ \A k \in VKeys :
                /\ vfs_vnodes'[k].in_list = vfs_vnodes[k].in_list
                /\ vfs_vnodes'[k].v_count = vfs_vnodes[k].v_count
           /\ \A sb \in DevIds :
                vfs_vnode_unmount_sb(vfs_vnodes', sb)
                  = vfs_vnode_unmount_sb(vfs_vnodes, sb))]_vars

\* C26: a vfs_mount whose probe callback fails returns -1 with E_INVFS
\* without reading through a NULL pointer, leaves no superblock for the
\* device in the list and leaves the dentry table as before the call (the
\* mount-point dentry it created is reset).
C26_ProbeFailureRollsBack ==
  [][(op' = "vfs_mount" /\ info'.step = "probe")
       => (/\ ret' = -1 /\ err' = "E_INVFS"
           /\ ~info'.fault /\ ~halted'
           /\ vfs_sb_lookup(vfs_sbs', argi') = NULL
           /\ vfs_dentries' = vfs_dentries)]_vars

\* C27: no vfs_mount calls ft_kill_sb more than once for its superblock,
\* and one whose mount callback fails calls it exactly once and leaves no
\* superblock for the device in the list.
C27_ReleaseCallbackOnce ==
  [][op' = "vfs_mount"
       => (/\ info'.kills <= 1
           /\ info'.step = "mount"
                => (/\ ret' = -1 /\ err' = "E_IO" /\ info'.kills = 1
                    /\ vfs_sb_lookup(vfs_sbs', argi') = NULL))]_vars

\* C28: vfs_sb_dealloc(sb) of a superblock linked to a filesystem type
\* returns -1 with E_IO and leaves every superblock as it was (apart from
\* the count of ft_kill_sb calls) when ft_kill_sb fails; otherwise it
\* returns 0, no superblock of that device is listed afterwards and the
\* other superblocks are as they were.
C28_DeallocAbortsOnKillFailure ==
  [][(op' = "vfs_sb_dealloc" /\ vfs_sbs[argi'].sb_fs_type # NoName)
       => (/\ info'.step = "kill_fail"
                => (/\ ret' = -1 /\ err' = "E_IO"
                    /\ vfs_sb_lookup(vfs_sbs', argi') = argi'
                    /\ vfs_sbs' = [vfs_sbs EXCEPT ![argi'].kills = @ + 1])
           /\ info'.step = "ok"
                => (/\ ret' = 0
                    /\ vfs_sb_lookup(vfs_sbs', argi') = NULL
                    /\ \A s \in DevIds \ {argi'} :
                         vfs_sbs'[s] = vfs_sbs[s]))]_vars

C28_Witness ==
  /\ op = "vfs_sb_dealloc" /\ ret = -1 /\ err = "E_IO"
  /\ info.step = "kill_fail" /\ info.kills = 1
  /\ vfs_sbs[argi].alloc /\ vfs_sbs[argi].sb_fs_type # NoName
  /\ VFS_SB_IS_MOUNTED(vfs_sbs[argi])

\* C29: a vfs_vnode_get_or_read(sb, vno) with no entry for (sb, vno) in the
\* list that fails leaves the list as it was, having called destroy_vnode
\* once when the insertion failed and not at all when read_vnode failed;
\* one that succeeds lists (sb, vno) with count 1 and changes nothing else.
C29_FailedLoadKeepsVnodeList ==
  [][(/\ op' = "vfs_vnode_get_or_read"
      /\ ~vfs_vnodes[<<argi', info'.last>>].in_list)
       => (/\ ret' = NULL
                => (/\ vfs_vnodes' = vfs_vnodes
                    /\ info'.step \in {"oom", "readfail", "addfail"}
                    /\ info'.destroy = (IF info'.step = "addfail"
                                        THEN 1 ELSE 0))
           /\ ret' # NULL
                => (/\ vfs_vnodes'[<<argi', info'.last>>].in_list
                    /\ vfs_vnodes'[<<argi', info'.last>>].v_count = 1
                    /\ info'.read = 1 /\ info'.destroy = 0
                    /\ \A k \in VKeys \ {<<argi', info'.last>>} :
                         vfs_vnodes'[k] = vfs_vnodes[k]))]_vars

C29_Witness ==
  /\ op = "vfs_vnode_get_or_read" /\ ret = NULL
  /\ info.step = "addfail" /\ info.destroy = 1 /\ info.read = 1
  /\ ~vfs_vnodes[<<argi, info.last>>].in_list
  /\ \E k \in VKeys : vfs_vnodes[k].in_list /\ vfs_vnodes[k].v_count >= 1

\* C30: a vfs_dentry_get that fails with E_NOMEM leaves every dentry slot
\* as it was before the call.
C30_NameOomEvictsNothing ==
  [][(op' = "vfs_dentry_get" /\ ret' = NULL /\ err' = "E_NOMEM")
       => vfs_dentries' = vfs_dentries]_vars

\* C31: time_sleep(s) with s >= 0 ends when the clock keeps ticking and
\* returns only after the clock has advanced at least s seconds past the
\* time read at the call, for every starting date and time: a call that has
\* returned saw at least s ticks, and a call still in its loop waits for a
\* second count that get_seconds, a 32-bit sum, can reach.
C31_SleepWaitsAndEnds ==
  /\ sleeper.pc = "done" => sleeper.elapsed >= sleeper.s
  /\ sleeper.pc = "loop" => sleeper.seconds_end.hi < HalfWord

\* C32: with the clock not advancing between the two calls, time_get after
\* time_set(t) returns t, the same seconds, minutes, hours, day, month and
\* four-digit year, for every valid date and time, in BCD and in binary
\* register mode: a time_get that directly follows a time_set returns, and
\* with the struct tm that was set.
C32_SetThenGetReturnsSame ==
  [][(op = "time_set" /\ op' = "time_get")
       => (sleeper'.pc # "time_get" /\ tm' = tm)]_vars
====
